---- MODULE Spec2Model ----
(***************************************************************************)
(* A model of the capture loops and of the distortion solver of the        *)
(* curling-camera repository.                                              *)
(*                                                                         *)
(* Three capture loops exist in the source and are modelled by `variant`:  *)
(*   "command"   core/management/commands/capture.py  Command.handle       *)
(*   "script"    capture_changed_frames.py            main                 *)
(*   "transform" transform.py                         module body          *)
(*                                                                         *)
(* An image is a record [h, row, ops]: h rows that all equal `row` (the    *)
(* picture is constant along the vertical axis, which keeps the set of     *)
(* frames small while both axes of a crop rectangle stay meaningful), and  *)
(* `ops`, the image operations applied to it since it left the source.     *)
(***************************************************************************)
EXTENDS Integers, Sequences, FiniteSets, TLC

\* ---------------------------------------------------------------- bounds
\* Width and height of the frames the source delivers.
FrameW == 3
FrameH == 2
\* Width of the downsampled comparison image (COMPARE_SIZE, scaled down).
CompareW == 2
\* The two intensities a pixel takes: 0 and PixStep.
PixStep == 5
\* The model stops accepting frames after this many accepts.
MaxAccepts == 3
\* --max-frames is drawn from 0..MaxLimit.
MaxLimit == 2
\* Consecutive read failures counted up to this number.
MaxReadFails == 2
\* The residual depends on each lens parameter with a weight in 0..MaxWeight.
MaxWeight == 1
\* Longest list of lines passed to a calibration run.
MaxLines == 2
\* Largest width and height of a corrected image handed to the crop builder.
MaxDim == 2

\* ------------------------------------------------------ program constants
\* capture_changed_frames.CHANGE_THRESHOLD, transform.CHANGE_THRESHOLD
CHANGE_THRESHOLD == 5

\* ------------------------------------------------------------- images
Pixels == {0, PixStep}

Max(a, b) == IF a >= b THEN a ELSE b
Min(a, b) == IF a <= b THEN a ELSE b
Abs(a) == IF a >= 0 THEN a ELSE 0 - a

\* Python's None for a frame and for the stored reference.
NoFrame == [h |-> 0, row |-> <<>>, ops |-> <<"none">>]
NoGray == <<>>
NoSize == [w |-> 0, h |-> 0]
NoRect == [x |-> 0, y |-> 0, w |-> 0, h |-> 0]

RawFrames == {[h |-> FrameH, row |-> r, ops |-> <<>>] : r \in [1..FrameW -> Pixels]}

Width(f) == Len(f.row)

\* cv2.resize along the horizontal axis (nearest source pixel).
Resize(row, m) == [i \in 1..m |-> row[(((i - 1) * Len(row)) \div m) + 1]]

\* gray = cv2.cvtColor(cv2.resize(frame, COMPARE_SIZE), cv2.COLOR_BGR2GRAY)
Gray(f) == Resize(f.row, CompareW)

\* cv2.absdiff
AbsDiff(a, b) == [i \in 1..Len(a) |-> Abs(a[i] - b[i])]

RECURSIVE SumSeq(_)
SumSeq(s) == IF Len(s) = 0 THEN 0 ELSE s[1] + SumSeq(Tail(s))

\* diff.mean() >= threshold, in integers: sum >= threshold * count
MeanAtLeast(diff, thr) == SumSeq(diff) >= thr * Len(diff)

\* Faulty variant: strict comparison.
ShouldSaveStrict(prev, gray, thr) ==
    IF prev = NoGray THEN TRUE ELSE SumSeq(AbsDiff(gray, prev)) > thr * Len(gray)

\* The change detector's decision (save_it).
ShouldSave(prev, gray, thr) ==
    IF prev = NoGray THEN TRUE ELSE MeanAtLeast(AbsDiff(gray, prev), thr)

\* ------------------------------------------------------ rectifier steps
\* Python's s[a:b] on a sequence of length n: the bounds are normalised.
PyIndex(i, n) == IF i < 0 THEN Max(i + n, 0) ELSE Min(i, n)
PySlice(s, a, b) ==
    LET lo == PyIndex(a, Len(s))
        hi == PyIndex(b, Len(s))
    IN  IF lo < hi THEN SubSeq(s, lo + 1, hi) ELSE <<>>
PySliceLen(n, a, b) == Max(0, PyIndex(b, n) - PyIndex(a, n))

\* frame[y:y+h, x:x+w]
SliceFrame(f, r) ==
    [h |-> PySliceLen(f.h, r.y, r.y + r.h),
     row |-> PySlice(f.row, r.x, r.x + r.w),
     ops |-> Append(f.ops, "crop")]

\* capture_changed_frames.FrameCropper.__call__ raises ValueError
CropOutOfBounds(f, r) ==
    r.x < 0 \/ r.y < 0 \/ r.y + r.h > f.h \/ r.x + r.w > Width(f)

\* cv2.undistort keeps the shape of the frame.
Undistort(f) == [f EXCEPT !.ops = Append(@, "undistort")]

\* cv2.warpPerspective produces an image of the requested size.
Warp(f, size) ==
    [h |-> size.h, row |-> Resize(f.row, size.w), ops |-> Append(f.ops, "warp")]

IsEmpty(f) == f.h <= 0 \/ Width(f) = 0


\* ---------------------------------------------------- rectifier pipelines
\* Stand-in for (rectified_width, rectified_height) / rectified_size.json.
RectifiedSize == [w |-> FrameW - 1, h |-> FrameH + 1]

\* Crop rectangles a crop_rect.npy may hold, relative to the raw frame size:
\* one that fits, one too wide, one too tall, one with a negative origin.
FittingRect == [x |-> 1, y |-> 0, w |-> FrameW - 1, h |-> FrameH]

CropRects ==
    {FittingRect,
     [x |-> 1, y |-> 0, w |-> FrameW, h |-> FrameH],
     [x |-> 0, y |-> 1, w |-> FrameW, h |-> FrameH],
     [x |-> 0 - 1, y |-> 0, w |-> FrameW, h |-> FrameH]}

\* No rectifier, no cropper.
NoPipe == [rectify |-> FALSE, crop |-> FALSE, rect |-> NoRect, out |-> NoSize]

\* capture.FrameRectifier.__call__ with capture.FrameCropper.__call__:
\* undistort, warp, then slice without a bounds check.
CommandRectify(p, f) ==
    LET target == IF p.out = NoSize THEN [w |-> Width(f), h |-> f.h] ELSE p.out
        warped == Warp(Undistort(f), target)
    IN  IF p.crop THEN SliceFrame(warped, p.rect) ELSE warped

\* capture_changed_frames: the cropper raises ValueError on the frame it is
\* given: the undistorted frame inside the rectifier, else the raw frame.
ScriptRaises(p, f) ==
    p.crop /\ CropOutOfBounds(IF p.rectify THEN Undistort(f) ELSE f, p.rect)

\* capture_changed_frames.main lines 309-310 (when nothing raises):
\* frame = rectifier(raw_frame); frame = post_rect_cropper(frame)
ScriptProcess(p, f) ==
    IF p.rectify
    THEN LET und == Undistort(f)
         IN  Warp(IF p.crop THEN SliceFrame(und, p.rect) ELSE und, p.out)
    ELSE IF p.crop THEN SliceFrame(f, p.rect) ELSE f

\* transform.py line 43: warped = cv2.warpPerspective(frame, H, (OUT_WIDTH, OUT_HEIGHT))
TransformProcess(f) == Warp(f, RectifiedSize)

\* ------------------------------------------------------------ the state
VARIABLES
    variant,        \* which capture loop runs
    threshold,      \* options['threshold'] / CHANGE_THRESHOLD
    max_frames,     \* options['max_frames'] (0: no limit)
    cfg,            \* what the loop finds at start-up (flags, files on disk)
    pc,             \* "start", "build", "loop", "exited"
    cap,            \* the acquisition resource: "closed", "open", "released"
    pipe,           \* the rectifier and cropper that were built
    prev_gray,      \* the change detector's stored reference
    saved_frames,   \* the command's count of accepted frames
    last,           \* the last loop iteration: its event, its raw frame
    lastAccepted,   \* raw frame of the last accept decision
    accepts,        \* number of accept decisions
    calls,          \* number of calls of the persistence step
    stored,         \* number of frames the persistence step stored
    handed,         \* the arguments of the last persistence call
    exit,           \* why the loop ended
    solver_in,      \* the calibration input: image shape and residual table
    pos,            \* indices of the grid combination evaluated next
    best_err,       \* smallest total residual so far (NoErr: None)
    best_combo,     \* (f_factor, k1, k2) of best_err
    best_K,         \* camera matrix of best_err
    best_dist,      \* distortion coefficients of best_err
    evaluated,      \* number of combinations evaluated
    spc,            \* the solver: "idle", "search", "select", "done", "failed"
    call,           \* a calibration run: the function called and its arguments
    converted,      \* the lines the search works on
    origin,         \* where those lines came from: "caller" or "projector"
    cal_error,      \* the error the calibration run raised
    session_created,\* CalibrationSession.objects.create has run
    result,         \* the CalibrationResult returned
    cpc,            \* the calibration run: "idle", "start", "search", "done", "failed"
    crop_in,        \* _compute_crop_rect: the hull's bounding rectangle, the image shape
    crop_rect,      \* _compute_crop_rect: the rectangle returned
    sessions,       \* the CalibrationSession rows of a camera, by id
    camera,         \* the Camera row: is_calibrated, calibration_dir, the profile in it
    request,        \* the last request to a view and its response
    source,         \* a CameraFrameSource: its camera's fields and _cap
    history,        \* the calls made on the source and how each ended
    motion_capture_pid, \* Camera.motion_capture_pid (0: None)
    running,        \* the pids of the capture processes of the camera that are alive
    launched,       \* number of capture processes launched so far
    notice,         \* the message of the last start or stop request
    points,         \* _order_points: the four points passed in
    ordered,        \* _order_points: the corners returned
    contours,       \* _detect_sheet_corners: the contours cv2.findContours returned
    detected,       \* _detect_sheet_corners: where the corners returned came from
    builder,        \* which program builds the crop rectangle
    builder_in,     \* its input: the extent of the corrected points, the image shape
    artifact,       \* what became of crop_rect.npy: written or not, and the rectangle
    profile_dir,    \* the camera's calibration directory: per file, the run it holds (0: absent)
    calibrated,     \* Camera.is_calibrated with calibration_dir set
    accepting,      \* an accept_calibration request: its run, the files copied so far
    loading,        \* _build_rectifier: its position and the run of each file it loaded
    row,            \* the CalibrationSession row the requests name: status, artifact_dir
    staged_files,   \* the session's staged artifact files exist
    promoted,       \* the camera was promoted to the session's calibration
    status_writes,  \* number of times the session's status was saved
    handlers        \* the requests in progress: view, position, the row as fetched

capVars == <<variant, threshold, max_frames, cfg, pc, cap, pipe, prev_gray,
             saved_frames, last, lastAccepted, accepts, calls, stored, handed, exit>>

solverVars == <<solver_in, pos, best_err, best_combo, best_K, best_dist, evaluated, spc>>

calVars == <<call, converted, origin, cal_error, session_created, result, cpc>>

cropVars == <<crop_in, crop_rect>>

sessVars == <<sessions, camera, request>>

srcVars == <<source, history>>

procVars == <<motion_capture_pid, running, launched, notice>>

ordVars == <<points, ordered>>

detVars == <<contours, detected>>

saveVars == <<builder, builder_in, artifact>>

profVars == <<profile_dir, calibrated, accepting, loading>>

raceVars == <<row, staged_files, promoted, status_writes, handlers>>

\* Everything but the capture loop and the solver's search.
auxVars == <<calVars, cropVars, sessVars, srcVars, procVars,
            ordVars, detVars, saveVars, profVars, raceVars>>

\* What the actions of one part leave alone of the other parts.
notCal == <<cropVars, sessVars, srcVars, procVars, ordVars, detVars, saveVars, profVars, raceVars>>
notCrop == <<calVars, sessVars, srcVars, procVars, ordVars, detVars, saveVars, profVars, raceVars>>
notSess == <<calVars, cropVars, srcVars, procVars, ordVars, detVars, saveVars, profVars, raceVars>>
notSrc == <<calVars, cropVars, sessVars, procVars, ordVars, detVars, saveVars, profVars, raceVars>>
notProc == <<calVars, cropVars, sessVars, srcVars, ordVars, detVars, saveVars, profVars, raceVars>>
notOrd == <<calVars, cropVars, sessVars, srcVars, procVars, detVars, saveVars, profVars, raceVars>>
notDet == <<calVars, cropVars, sessVars, srcVars, procVars, ordVars, saveVars, profVars, raceVars>>
notSave == <<calVars, cropVars, sessVars, srcVars, procVars, ordVars, detVars, profVars, raceVars>>
notProf == <<calVars, cropVars, sessVars, srcVars, procVars, ordVars, detVars, saveVars, raceVars>>
notRace == <<calVars, cropVars, sessVars, srcVars, procVars, ordVars, detVars, saveVars, profVars>>

vars == <<capVars, solverVars, auxVars>>

\* ------------------------------------------------------- configurations
Config(rectify, intrinsics, homography, cropOn, cropFile, shapeOk, rect, size) ==
    [rectify |-> rectify, intrinsics |-> intrinsics, homography |-> homography,
     cropOn |-> cropOn,
     cropFile |-> cropFile, shapeOk |-> shapeOk, rect |-> rect, size |-> size]

\* A crop_rect.npy: absent, holding something that is not four numbers, or a rectangle.
CropFiles ==
    {<<FALSE, TRUE, NoRect>>, <<TRUE, FALSE, NoRect>>}
        \cup {<<TRUE, TRUE, r>> : r \in CropRects}

\* camera_matrix.npy, dist_coeffs.npy, new_camera_matrix.npy and homography.npy
\* all exist.
AllFiles(c) == c.intrinsics /\ c.homography

\* Camera.is_calibrated and calibration_dir; the intrinsics (camera_matrix.npy,
\* dist_coeffs.npy, new_camera_matrix.npy); homography.npy; crop_rect.npy;
\* rectified_size.json.
CommandConfigs ==
    {Config(FALSE, FALSE, FALSE, TRUE, FALSE, TRUE, NoRect, NoSize),
     Config(TRUE, FALSE, FALSE, TRUE, FALSE, TRUE, NoRect, NoSize),
     Config(TRUE, TRUE, FALSE, TRUE, TRUE, TRUE, FittingRect, NoSize),
     Config(TRUE, FALSE, TRUE, TRUE, FALSE, TRUE, NoRect, RectifiedSize)}
        \cup {Config(TRUE, TRUE, TRUE, TRUE, c[1], c[2], c[3], s) :
                c \in CropFiles, s \in {NoSize, RectifiedSize}}

\* --rectify, the intrinsics, homography.npy, --crop, crop_rect.npy.
ScriptConfigs ==
    {Config(r[1], r[2], r[3], FALSE, FALSE, TRUE, NoRect, RectifiedSize) :
        r \in {<<FALSE, FALSE, FALSE>>, <<TRUE, TRUE, FALSE>>, <<TRUE, TRUE, TRUE>>}}
        \cup {Config(r[1], r[2], r[3], TRUE, c[1], c[2], c[3], RectifiedSize) :
                r \in {<<FALSE, FALSE, FALSE>>, <<TRUE, TRUE, FALSE>>, <<TRUE, TRUE, TRUE>>},
                c \in CropFiles}

TransformConfigs ==
    {Config(TRUE, FALSE, TRUE, FALSE, FALSE, TRUE, NoRect, RectifiedSize)}

\* --threshold is any float; the model draws three values.
Thresholds == {0, 2, 5}

NoLast == [ev |-> "none", raw |-> NoFrame, fails |-> 0]

\* ------------------------------------------------- the distortion solver
\* The search grid of run_calibration_pipeline, in hundredths.
f_factors == <<70, 80, 90, 100, 110>>
k1_values == <<0 - 30, 0 - 20, 0 - 15, 0 - 10, 0 - 5, 0>>
k2_values == <<0 - 10, 0 - 5, 0, 5>>

\* best_err = None
NoErr == 0 - 1
NoCombo == <<0, 0, 0>>
NoK == [f |-> 0, cx2 |-> 0, cy2 |-> 0]
NoDist == <<>>
NoInput == [h |-> 0, w |-> 0, tf |-> 0, t1 |-> 0, t2 |-> 0, wf |-> 0, w1 |-> 0, w2 |-> 0]

\* The lines of a calibration input enter the search only through the total
\* residual of each combination, which cv2.undistortPoints and an SVD compute.
\* The model draws the residual table from a family: the combination
\* (tf, t1, t2) that straightens the lines best, which need not lie on the
\* grid (a tf halfway between two grid values makes them tie), and for each
\* parameter how strongly the residual depends on it (weight 0: not at all,
\* as for the focal factor of lines that need no correction, so that whole
\* rows of the grid tie).
SolverInputs ==
    {[h |-> s[1], w |-> s[2], tf |-> tf, t1 |-> t1, t2 |-> t2,
      wf |-> wf, w1 |-> w1, w2 |-> w2] :
        s \in {<<FrameH, FrameW>>, <<FrameW, FrameH>>},
        tf \in {75, 100}, t1 \in {0 - 25, 0 - 12, 0}, t2 \in {0 - 5, 2},
        wf \in 0..MaxWeight, w1 \in 0..MaxWeight, w2 \in 0..MaxWeight}

\* The sum of _line_rms over the undistorted lines.
Residual(in, f, k1, k2) ==
    in.wf * Abs(f - in.tf) + in.w1 * Abs(k1 - in.t1) + in.w2 * Abs(k2 - in.t2)

\* _evaluate_params: (total, K, dist); f = f_factor * max(w, h), the principal
\* point at the image centre (kept doubled), dist = (k1, k2, 0, 0, 0).
EvaluateParams(in, f_factor, k1, k2) ==
    [err |-> Residual(in, f_factor, k1, k2),
     K |-> [f |-> f_factor * Max(in.w, in.h), cx2 |-> in.w, cy2 |-> in.h],
     dist |-> <<k1, k2, 0, 0, 0>>]

\* Faulty variant: a later combination with an equal residual replaces the best.
BetterOrEqual(err, best) == IF best = NoErr THEN TRUE ELSE err <= best

\* best_err is None or err < best_err
Better(err, best) == IF best = NoErr THEN TRUE ELSE err < best

FirstPos == <<1, 1, 1>>
LastPos == <<Len(f_factors), Len(k1_values), Len(k2_values)>>

\* Faulty variant: the search leaves out the second combination of the grid.
NextPosSkipping(p) ==
    IF p = <<1, 1, 1>> THEN <<1, 1, 3>>
    ELSE IF p[3] < Len(k2_values) THEN <<p[1], p[2], p[3] + 1>>
    ELSE IF p[2] < Len(k1_values) THEN <<p[1], p[2] + 1, 1>>
    ELSE <<p[1] + 1, 1, 1>>

\* The three nested for loops: k2 innermost, then k1, f_factor outermost.
NextPos(p) ==
    IF p[3] < Len(k2_values) THEN <<p[1], p[2], p[3] + 1>>
    ELSE IF p[2] < Len(k1_values) THEN <<p[1], p[2] + 1, 1>>
    ELSE <<p[1] + 1, 1, 1>>

ComboAt(p) == <<f_factors[p[1]], k1_values[p[2]], k2_values[p[3]]>>

\* No calibration runs.
SolverIdle ==
    /\ solver_in = NoInput
    /\ pos = FirstPos
    /\ best_err = NoErr
    /\ best_combo = NoCombo
    /\ best_K = NoK
    /\ best_dist = NoDist
    /\ evaluated = 0
    /\ spc = "idle"

\* ---------------------------------------------------- calibration runs
\* The values that stand for "nothing yet". A call carries the function
\* called, the state of the image file, whether lines were passed (given is
\* FALSE for lines=None), the lines, and whether the image shows an outline.
NoResult == [fit_error |-> NoErr, best_combo |-> NoCombo, camera_matrix |-> NoK,
             dist_coeffs |-> NoDist, crop_rect |-> NoRect]
NoCall == [entry |-> "none", image |-> "ok", given |-> FALSE, lines |-> <<>>,
           outline |-> TRUE]

\* No calibration run was started.
CalIdle ==
    /\ call = NoCall
    /\ converted = <<>>
    /\ origin = "none"
    /\ cal_error = "none"
    /\ session_created = FALSE
    /\ result = NoResult
    /\ cpc = "idle"

NoCropIn == [rect |-> NoRect, img_h |-> 0, img_w |-> 0]

\* The crop builder was not called.
CropIdle ==
    /\ crop_in = NoCropIn
    /\ crop_rect = NoRect

\* ----------------------------------------------- calibration sessions
\* Most sessions a camera has.
MaxSessions == 3
\* submit_calibration: the lines a request must at least carry.
MinTracedLines == 3

\* A session row that does not exist, and one as CalibrationSession.objects.create
\* makes it (status defaults to Pending, artifact_dir to '').
NoSession == [status |-> "absent", artifact_dir |-> FALSE]
NewSession == [status |-> "pending", artifact_dir |-> FALSE]

NoCamera == [is_calibrated |-> FALSE, calibration_dir |-> FALSE, profile |-> 0]
NoRequest == [op |-> "none", id |-> 0, response |-> "none"]

\* No session exists, the camera is not calibrated.
SessIdle ==
    /\ sessions = [id \in 1..MaxSessions |-> NoSession]
    /\ camera = NoCamera
    /\ request = NoRequest

\* --------------------------------------------------- the frame source
\* Most calls made on one frame source.
MaxHistory == 4

\* CameraFrameSource.__init__: _cap is None. A camera has a snapshot URL, a
\* device index, or neither.
NewSource(url, index) == [snapshot_url |-> url, device_index |-> index, cap |-> "None"]

\* No frame source is in use.
SrcIdle ==
    /\ source = NewSource(FALSE, FALSE)
    /\ history = <<>>

\* ------------------------------------------------ capture processes
\* Most capture processes launched for the camera.
MaxLaunches == 4

\* No capture process was started for the camera.
ProcIdle ==
    /\ motion_capture_pid = 0
    /\ running = {}
    /\ launched = 0
    /\ notice = "none"

\* -------------------------------------------------- corner ordering
\* Largest pixel coordinate of a corner candidate.
MaxCoord == 2

\* _order_points was not called.
OrdIdle ==
    /\ points = <<>>
    /\ ordered = <<>>

\* ------------------------------------------------ the sheet's outline
\* Most contours found in an image, the largest contour area, and the most
\* vertices of a polygon approximation.
MaxContours == 3
MaxArea == 3
MaxVertices == 5

NoDetection == [outcome |-> "none", contour |-> 0]

\* _detect_sheet_corners was not called.
DetIdle ==
    /\ contours = <<>>
    /\ detected = NoDetection

\* ------------------------------------------- writing crop_rect.npy
\* one_time_crop.py: pixels to move inside each boundary.
MARGIN == 4

NoBuilderIn == [rect |-> NoRect, img_h |-> 0, img_w |-> 0]
NotSaved == [state |-> "none", rect |-> NoRect]

\* No crop rectangle is being built.
SaveIdle ==
    /\ builder = "none"
    /\ builder_in = NoBuilderIn
    /\ artifact = NotSaved

\* ------------------------------------------- the profile on disk
\* Most calibration runs accepted for the camera.
MaxRuns == 3

\* accept_calibration: required_files, in the order they are copied.
RequiredFiles == <<"camera_matrix", "dist_coeffs", "new_camera_matrix", "crop_rect">>

\* A calibration directory whose four files all come from one run (0: it is empty).
ProfileOf(run) == [f \in {RequiredFiles[i] : i \in 1..4} \cup {"homography"} |->
                      IF f = "homography" THEN 0 ELSE run]

NoAccept == [run |-> 0, copied |-> 0]
NoLoad == [pc |-> "idle", next |-> 0, loaded |-> ProfileOf(0)]

\* No profile is on disk, none is being accepted or loaded.
ProfIdle ==
    /\ profile_dir = ProfileOf(0)
    /\ calibrated = FALSE
    /\ accepting = NoAccept
    /\ loading = NoLoad

\* ------------------------------------------- requests at the same time
\* Requests for one session that run at the same time.
MaxRequests == 2

\* No request is in progress.
RaceIdle ==
    /\ row = NoSession
    /\ staged_files = FALSE
    /\ promoted = FALSE
    /\ status_writes = 0
    /\ handlers = <<>>

AuxIdle ==
    /\ CalIdle
    /\ CropIdle
    /\ SessIdle
    /\ SrcIdle
    /\ ProcIdle
    /\ OrdIdle
    /\ DetIdle
    /\ SaveIdle
    /\ ProfIdle
    /\ RaceIdle

\* The state of a capture loop before it starts.
CaptureIdle ==
    /\ pc = "start"
    /\ cap = "closed"
    /\ pipe = NoPipe
    /\ prev_gray = NoGray
    /\ saved_frames = 0
    /\ last = NoLast
    /\ lastAccepted = NoFrame
    /\ accepts = 0
    /\ calls = 0
    /\ stored = 0
    /\ handed = <<>>
    /\ exit = "none"

Init ==
    /\ variant \in {"command", "script", "transform"}
    /\ threshold \in (IF variant = "command" THEN Thresholds ELSE {CHANGE_THRESHOLD})
    /\ max_frames \in (IF variant = "command" THEN 0..MaxLimit ELSE {0})
    /\ cfg \in (CASE variant = "command" -> CommandConfigs
                  [] variant = "script" -> ScriptConfigs
                  [] OTHER -> TransformConfigs)
    /\ CaptureIdle
    /\ SolverIdle
    /\ AuxIdle


\* ------------------------------------------------------------- start-up
\* frame_source.open() / cv2.VideoCapture(...) succeeds. transform.py enters
\* its try block right after the open.
Open ==
    /\ pc = "start"
    /\ cap' = "open"
    /\ pc' = IF variant = "transform" THEN "loop" ELSE "build"
    /\ UNCHANGED <<solverVars, auxVars, variant, threshold, max_frames, cfg, pipe, prev_gray, saved_frames,
                   last, lastAccepted, accepts, calls, stored, handed, exit>>

\* The open fails: the command returns, the scripts raise RuntimeError.
\* CameraFrameSource.open releases the handle it got before it raises.
OpenFails ==
    /\ pc = "start"
    /\ pc' = "exited"
    /\ exit' = "open_failed"
    /\ UNCHANGED <<solverVars, auxVars, variant, threshold, max_frames, cfg, cap, pipe, prev_gray, saved_frames,
                   last, lastAccepted, accepts, calls, stored, handed>>

\* What raises between the open and the try block:
\*   command: FrameCropper.__init__ (ValueError, crop_rect.npy has not four entries);
\*   script: FileNotFoundError (crop or calibration files missing), ValueError
\*           (FrameCropper.__init__).
SetupRaises ==
    CASE variant = "command" ->
            cfg.rectify /\ AllFiles(cfg) /\ cfg.cropFile /\ ~cfg.shapeOk
      [] variant = "script" ->
            \/ cfg.cropOn /\ (~cfg.cropFile \/ ~cfg.shapeOk)
            \/ cfg.rectify /\ ~AllFiles(cfg)
      [] OTHER -> FALSE

\* Command._build_rectifier / the set-up of capture_changed_frames.main
BuiltPipe ==
    CASE variant = "command" ->
            IF cfg.rectify /\ AllFiles(cfg)
            THEN [rectify |-> TRUE, crop |-> cfg.cropFile, rect |-> cfg.rect, out |-> cfg.size]
            ELSE NoPipe
      [] variant = "script" ->
            [rectify |-> cfg.rectify, crop |-> cfg.cropOn, rect |-> cfg.rect,
             out |-> IF cfg.rectify THEN cfg.size ELSE NoSize]
      [] OTHER -> NoPipe

\* The set-up succeeds and the loop is entered.
Build ==
    /\ pc = "build"
    /\ ~SetupRaises
    /\ pipe' = BuiltPipe
    /\ pc' = "loop"
    /\ UNCHANGED <<solverVars, auxVars, variant, threshold, max_frames, cfg, cap, prev_gray, saved_frames,
                   last, lastAccepted, accepts, calls, stored, handed, exit>>

\* The set-up raises: it runs before the try block, so no finally clause runs.
BuildRaises ==
    /\ pc = "build"
    /\ SetupRaises
    /\ pc' = "exited"
    /\ exit' = "build_error"
    /\ UNCHANGED <<solverVars, auxVars, variant, threshold, max_frames, cfg, cap, pipe, prev_gray, saved_frames,
                   last, lastAccepted, accepts, calls, stored, handed>>

\* KeyboardInterrupt: caught inside the try block (finally releases the
\* source); during the set-up it propagates with no finally clause around it.
Interrupt ==
    /\ pc \in {"build", "loop"}
    /\ cap' = IF pc = "loop" THEN "released" ELSE cap
    /\ pc' = "exited"
    /\ exit' = "interrupt"
    /\ UNCHANGED <<solverVars, auxVars, variant, threshold, max_frames, cfg, pipe, prev_gray, saved_frames,
                   last, lastAccepted, accepts, calls, stored, handed>>

\* ------------------------------------------------------------- the loop
Event(ev, raw) == [ev |-> ev, raw |-> raw, fails |-> 0]

\* The frame the change detector evaluates.
DetectorInput(raw) ==
    CASE variant = "command" -> raw
      [] variant = "script" -> ScriptProcess(pipe, raw)
      [] OTHER -> TransformProcess(raw)

\* Faulty variant: the reference is never replaced.
NextReferenceStale(prev, gray, save_it) == prev

\* Faulty variant: the reference follows the last frame seen.
NextReferenceLastSeen(prev, gray, save_it) == gray

\* prev_gray = gray, executed on accept only.
NextReference(prev, gray, save_it) == IF save_it THEN gray ELSE prev

\* Faulty variant: a failed read ends the loop.
ReadFailsFatal ==
    /\ pc = "loop"
    /\ last.fails < MaxReadFails
    /\ last' = [ev |-> "read_failed", raw |-> NoFrame, fails |-> last.fails + 1]
    /\ pc' = "exited"
    /\ cap' = "released"
    /\ exit' = "error"
    /\ UNCHANGED <<solverVars, auxVars, variant, threshold, max_frames, cfg, pipe, prev_gray, saved_frames,
                   lastAccepted, accepts, calls, stored, handed>>

\* frame_source.read() raises RuntimeError / cap.read() returns ret = False:
\* log, time.sleep(poll_interval), continue.
ReadFails ==
    /\ pc = "loop"
    /\ last.fails < MaxReadFails
    /\ last' = [ev |-> "read_failed", raw |-> NoFrame, fails |-> last.fails + 1]
    /\ UNCHANGED <<solverVars, auxVars, variant, threshold, max_frames, cfg, pc, cap, pipe, prev_gray,
                   saved_frames, lastAccepted, accepts, calls, stored, handed, exit>>

\* capture_changed_frames: the cropper raises ValueError inside the try block;
\* only KeyboardInterrupt is caught, so the error leaves the loop through finally.
RectifyRaises(raw) ==
    /\ pc = "loop"
    /\ variant = "script"
    /\ ScriptRaises(pipe, raw)
    /\ last' = Event("rectify_failed", raw)
    /\ pc' = "exited"
    /\ cap' = "released"
    /\ exit' = "error"
    /\ UNCHANGED <<solverVars, auxVars, variant, threshold, max_frames, cfg, pipe, prev_gray, saved_frames,
                   lastAccepted, accepts, calls, stored, handed>>

\* The frame can be evaluated by the detector.
Evaluable(raw) == pc = "loop" /\ ~(variant = "script" /\ ScriptRaises(pipe, raw))

\* The detector skips the frame: sleep and poll again.
SkipFrame(raw) ==
    /\ Evaluable(raw)
    /\ ~ShouldSave(prev_gray, Gray(DetectorInput(raw)), threshold)
    /\ last' = Event("skipped", raw)
    /\ prev_gray' = NextReference(prev_gray, Gray(DetectorInput(raw)), FALSE)
    /\ UNCHANGED <<solverVars, auxVars, variant, threshold, max_frames, cfg, pc, cap, pipe, saved_frames,
                   lastAccepted, accepts, calls, stored, handed, exit>>

\* rectified_frame = rectifier(frame) if rectifier else None
Rectified(raw) == IF pipe.rectify THEN CommandRectify(pipe, raw) ELSE NoFrame

\* Faulty variant: the command hands over the raw frame only.
HandedRawOnly(raw) ==
    IF variant = "command" THEN <<raw, NoFrame>> ELSE <<DetectorInput(raw)>>

\* What the persistence step is called with: _persist_frame(camera, frame,
\* rectified_frame) in the command, save_frame(frame) in the scripts.
Handed(raw) ==
    IF variant = "command" THEN <<raw, Rectified(raw)>> ELSE <<DetectorInput(raw)>>

\* cv2.imwrite raises on an empty image.
PersistMustRaise(raw) ==
    variant = "command" /\ pipe.rectify /\ IsEmpty(Rectified(raw))

\* Outcomes of a persistence call that returns: the frame is stored, or (command)
\* cv2.imencode fails and _persist_frame returns after "skipping save".
PersistOutcomes == IF variant = "command" THEN {"stored", "encode_failed"} ELSE {"stored"}

\* options['max_frames'] > 0 and saved_frames >= options['max_frames']
LimitReached(saved) == max_frames > 0 /\ saved >= max_frames

\* The detector accepts the frame and the persistence call returns.
AcceptFrame(raw, outcome) ==
    /\ Evaluable(raw)
    /\ accepts < MaxAccepts
    /\ ShouldSave(prev_gray, Gray(DetectorInput(raw)), threshold)
    /\ ~PersistMustRaise(raw)
    /\ last' = Event("accepted", raw)
    /\ lastAccepted' = raw
    /\ accepts' = accepts + 1
    /\ calls' = calls + 1
    /\ handed' = Handed(raw)
    /\ stored' = IF outcome = "stored" THEN stored + 1 ELSE stored
    /\ prev_gray' = NextReference(prev_gray, Gray(DetectorInput(raw)), TRUE)
    /\ saved_frames' = IF variant = "command" THEN saved_frames + 1 ELSE saved_frames
    /\ IF LimitReached(saved_frames + 1)
       THEN pc' = "exited" /\ cap' = "released" /\ exit' = "limit"
       ELSE UNCHANGED <<pc, cap, exit>>
    /\ UNCHANGED <<solverVars, auxVars, variant, threshold, max_frames, cfg, pipe>>

\* The detector accepts the frame and _persist_frame raises (the database, the
\* file system, cv2): nothing but KeyboardInterrupt is caught, so the error
\* leaves the loop through finally.
PersistRaises(raw) ==
    /\ Evaluable(raw)
    /\ variant = "command"
    /\ accepts < MaxAccepts
    /\ ShouldSave(prev_gray, Gray(DetectorInput(raw)), threshold)
    /\ last' = Event("persist_failed", raw)
    /\ lastAccepted' = raw
    /\ accepts' = accepts + 1
    /\ calls' = calls + 1
    /\ handed' = Handed(raw)
    /\ pc' = "exited"
    /\ cap' = "released"
    /\ exit' = "error"
    /\ UNCHANGED <<solverVars, auxVars, variant, threshold, max_frames, cfg, pipe, prev_gray, saved_frames,
                   stored>>

\* capture_changed_frames: the frame is accepted and saved, then FrameDisplay.show
\* raises KeyboardInterrupt on the Q or ESC key, before the reference is replaced.
QuitKey(raw) ==
    /\ Evaluable(raw)
    /\ variant = "script"
    /\ accepts < MaxAccepts
    /\ ShouldSave(prev_gray, Gray(DetectorInput(raw)), threshold)
    /\ last' = Event("quit", raw)
    /\ lastAccepted' = raw
    /\ accepts' = accepts + 1
    /\ calls' = calls + 1
    /\ handed' = Handed(raw)
    /\ stored' = stored + 1
    /\ pc' = "exited"
    /\ cap' = "released"
    /\ exit' = "interrupt"
    /\ UNCHANGED <<solverVars, auxVars, variant, threshold, max_frames, cfg, pipe, prev_gray, saved_frames>>

Next ==
    \/ Open
    \/ OpenFails
    \/ BuildRaises
    \/ Build
    \/ Interrupt
    \/ ReadFails
    \/ \E raw \in RawFrames : RectifyRaises(raw)
    \/ \E raw \in RawFrames : SkipFrame(raw)
    \/ \E raw \in RawFrames : \E outcome \in PersistOutcomes : AcceptFrame(raw, outcome)
    \/ \E raw \in RawFrames : PersistRaises(raw)
    \/ \E raw \in RawFrames : QuitKey(raw)

Spec == Init /\ [][Next]_vars


\* ------------------------------------------------- the solver's search
\* One pass of the innermost loop body of run_calibration_pipeline.
Evaluate ==
    /\ spc = "search"
    /\ LET c == ComboAt(pos)
           r == EvaluateParams(solver_in, c[1], c[2], c[3])
       IN  IF Better(r.err, best_err)
           THEN /\ best_err' = r.err
                /\ best_combo' = c
                /\ best_K' = r.K
                /\ best_dist' = r.dist
           ELSE UNCHANGED <<best_err, best_combo, best_K, best_dist>>
    /\ evaluated' = evaluated + 1
    /\ IF pos = LastPos
       THEN spc' = "select" /\ pos' = pos
       ELSE spc' = "search" /\ pos' = NextPos(pos)
    /\ UNCHANGED <<capVars, auxVars, solver_in>>

\* After the loops: the result is built from best_K, best_dist, best_err and
\* best_combo.
Select ==
    /\ spc = "select"
    /\ spc' = IF best_err = NoErr THEN "failed" ELSE "done"
    /\ UNCHANGED <<capVars, auxVars, solver_in, pos, best_err, best_combo, best_K, best_dist,
                   evaluated>>

SolverInit ==
    /\ variant = "command"
    /\ threshold = CHANGE_THRESHOLD
    /\ max_frames = 0
    /\ cfg = Config(FALSE, FALSE, FALSE, TRUE, FALSE, TRUE, NoRect, NoSize)
    /\ CaptureIdle
    /\ solver_in \in SolverInputs
    /\ pos = FirstPos
    /\ best_err = NoErr
    /\ best_combo = NoCombo
    /\ best_K = NoK
    /\ best_dist = NoDist
    /\ evaluated = 0
    /\ spc = "search"
    /\ AuxIdle

SolverNext ==
    \/ Evaluate
    \/ Select

SolverSpec == SolverInit /\ [][SolverNext]_vars

\* ------------------------------------------------ a calibration run
\* Coordinates of caller points are kept doubled, so that 1 stands for 0.5.
\* Python's round: to the nearest integer, a half to the even neighbour.
Round(c2) ==
    IF c2 % 2 = 0 THEN c2 \div 2
    ELSE LET lo == (c2 - 1) \div 2
         IN  IF lo % 2 = 0 THEN lo ELSE lo + 1

HasXY(point) == Len(point) >= 2
NonEmpty(line) == Len(line) > 0

\* _normalize_lines: points with fewer than two coordinates are dropped, the
\* others rounded to integers; lines left without a point are dropped.
NormalizeLine(line) ==
    LET kept == SelectSeq(line, HasXY)
    IN  [j \in 1..Len(kept) |-> <<2 * Round(kept[j][1]), 2 * Round(kept[j][2])>>]

NormalizeLines(lines) ==
    SelectSeq([i \in 1..Len(lines) |-> NormalizeLine(lines[i])], NonEmpty)

\* Faulty variant: empty lines are handed to the search as well.
ConvertLinesKeepEmpty(lines) == lines

\* run_calibration_pipeline lines 106-111: lines with pts.size == 0 are skipped.
ConvertLines(lines) == SelectSeq(lines, NonEmpty)

\* The lines a caller may pass: an empty line, a line whose only point lacks
\* a coordinate, a line of two points.
TracedLine == <<<<1, 0>>, <<4, 5>>>>
PipelineLines == {<<>>, TracedLine}
ServiceLines == {<<>>, <<<<1>>>>, TracedLine}

SeqsUpTo(S, n) == UNION {[1..k -> S] : k \in 0..n}

\* _build_reference_lines: the centre line, the hog, tee and back lines of
\* both ends, projected into the image (two points stand for the samples).
ReferenceLines == [i \in 1..7 |-> <<<<2 * i, 0>>, <<2 * i, 4>>>>]

Images == {"ok", "undecodable", "missing"}

Calls ==
    {[entry |-> "pipeline", image |-> im, given |-> TRUE, lines |-> ls, outline |-> TRUE] :
        im \in Images, ls \in SeqsUpTo(PipelineLines, MaxLines)}
    \cup {[entry |-> "service", image |-> im, given |-> TRUE, lines |-> ls, outline |-> TRUE] :
        im \in Images, ls \in SeqsUpTo(ServiceLines, MaxLines)}
    \cup {[entry |-> "service", image |-> im, given |-> FALSE, lines |-> <<>>, outline |-> o] :
        im \in Images, o \in BOOLEAN}

\* The residual tables of the lines of a calibration run.
CalibrationInputs ==
    {in \in SolverInputs :
        /\ in.h = FrameH /\ in.tf = 75 /\ in.t1 = 0 - 12 /\ in.t2 = 2
        /\ in.wf = 1 /\ in.w1 = in.w2}

\* run_calibration_pipeline lines 102-113: what it raises before the search.
PipelineError(image, lines) ==
    IF image # "ok" THEN "unreadable_image"
    ELSE IF ConvertLines(lines) = <<>> THEN "no_lines"
    ELSE "none"

\* generate_auto_calibration: the image is read, the outline of the sheet
\* detected, and the reference lines projected through the homography.
AutoError(c) ==
    IF c.image # "ok" THEN "unreadable_image"
    ELSE IF ~c.outline THEN "no_outline"
    ELSE "none"

\* create_calibration_session lines 36-52, up to the search: the lines that
\* reach the pipeline, where they came from, whether the session row was
\* created, and the error raised.
ServiceStart(c) ==
    LET auto == ~c.given
        lines == IF auto THEN ReferenceLines ELSE c.lines
        from == IF auto THEN "projector" ELSE "caller"
        cleaned_lines == NormalizeLines(lines)
    IN  IF auto /\ AutoError(c) # "none"
        THEN [error |-> AutoError(c), lines |-> <<>>, origin |-> "none", session |-> FALSE]
        ELSE IF cleaned_lines = <<>>
        THEN [error |-> "no_lines", lines |-> <<>>, origin |-> "none", session |-> FALSE]
        ELSE IF c.image = "missing"
        THEN [error |-> "file_not_found", lines |-> <<>>, origin |-> "none", session |-> TRUE]
        ELSE IF PipelineError(c.image, cleaned_lines) # "none"
        THEN [error |-> PipelineError(c.image, cleaned_lines), lines |-> <<>>,
              origin |-> "none", session |-> TRUE]
        ELSE [error |-> "none", lines |-> ConvertLines(cleaned_lines), origin |-> from,
              session |-> TRUE]

\* run_calibration_pipeline called on its own.
PipelineStart(c) ==
    IF PipelineError(c.image, c.lines) # "none"
    THEN [error |-> PipelineError(c.image, c.lines), lines |-> <<>>, origin |-> "none",
          session |-> FALSE]
    ELSE [error |-> "none", lines |-> ConvertLines(c.lines), origin |-> "caller",
          session |-> FALSE]

\* The run up to the first pass of the search loop.
StartRun(start) ==
    /\ cpc = "start"
    /\ session_created' = start.session
    /\ IF start.error = "none"
       THEN /\ converted' = start.lines
            /\ origin' = start.origin
            /\ cpc' = "search"
            /\ spc' = "search"
            /\ solver_in' \in CalibrationInputs
            /\ UNCHANGED cal_error
       ELSE /\ cal_error' = start.error
            /\ cpc' = "failed"
            /\ UNCHANGED <<converted, origin, spc, solver_in>>
    /\ UNCHANGED <<capVars, notCal, call, result, pos, best_err, best_combo, best_K,
                   best_dist, evaluated>>

RunPipeline ==
    /\ call.entry = "pipeline"
    /\ StartRun(PipelineStart(call))

CreateSession ==
    /\ call.entry = "service"
    /\ StartRun(ServiceStart(call))

\* The bounding rectangles cv2.boundingRect may return for the hull of the
\* undistorted points: anywhere around the image, at least one pixel wide
\* and high.
HullRects ==
    {[x |-> x, y |-> y, w |-> w, h |-> h] :
        x \in (0 - 1)..(MaxDim + 1), y \in (0 - 1)..(MaxDim + 1),
        w \in 1..(MaxDim + 1), h \in 1..(MaxDim + 1)}

\* Faulty variant: the width and height are clamped to the image size only.
ComputeCropRectLoose(rect, img_h, img_w) ==
    LET x == Max(0, Min(rect.x, img_w - 1))
        y == Max(0, Min(rect.y, img_h - 1))
    IN  [x |-> x, y |-> y, w |-> Max(1, Min(rect.w, img_w)), h |-> Max(1, Min(rect.h, img_h))]

\* _compute_crop_rect lines 84-89: the bounding rectangle clamped to the image.
ComputeCropRect(rect, img_h, img_w) ==
    LET x == Max(0, Min(rect.x, img_w - 1))
        y == Max(0, Min(rect.y, img_h - 1))
    IN  [x |-> x, y |-> y,
         w |-> Max(1, Min(rect.w, img_w - x)),
         h |-> Max(1, Min(rect.h, img_h - y))]

\* run_calibration_pipeline lines 139-158 and, for a session, the rest of
\* create_calibration_session: the result is built from the best combination
\* and the crop rectangle of the undistorted lines.
Finish ==
    /\ cpc = "search"
    /\ spc = "done"
    /\ \E hull \in HullRects :
          result' = [fit_error |-> best_err, best_combo |-> best_combo,
                     camera_matrix |-> best_K, dist_coeffs |-> best_dist,
                     crop_rect |-> ComputeCropRect(hull, solver_in.h, solver_in.w)]
    /\ cpc' = "done"
    /\ UNCHANGED <<capVars, solverVars, notCal, call, converted, origin, cal_error,
                   session_created>>

\* The capture loop is not part of the run.
CaptureParked ==
    /\ variant = "command"
    /\ threshold = CHANGE_THRESHOLD
    /\ max_frames = 0
    /\ cfg = Config(FALSE, FALSE, FALSE, TRUE, FALSE, TRUE, NoRect, NoSize)
    /\ CaptureIdle

CalibrationInit ==
    /\ CaptureParked
    /\ SolverIdle
    /\ CropIdle
    /\ SessIdle
    /\ SrcIdle
    /\ ProcIdle
    /\ OrdIdle
    /\ DetIdle
    /\ SaveIdle
    /\ ProfIdle
    /\ RaceIdle
    /\ call \in Calls
    /\ converted = <<>>
    /\ origin = "none"
    /\ cal_error = "none"
    /\ session_created = FALSE
    /\ result = NoResult
    /\ cpc = "start"

CalibrationNext ==
    \/ RunPipeline
    \/ CreateSession
    \/ Evaluate
    \/ Select
    \/ Finish

CalibrationSpec == CalibrationInit /\ [][CalibrationNext]_vars

\* ------------------------------------------------ the crop builder alone
\* _compute_crop_rect, from the bounding rectangle of the hull on.
ComputeCrop ==
    /\ crop_rect = NoRect
    /\ crop_in # NoCropIn
    /\ crop_rect' = ComputeCropRect(crop_in.rect, crop_in.img_h, crop_in.img_w)
    /\ UNCHANGED <<capVars, solverVars, notCrop, crop_in>>

CropInit ==
    /\ CaptureParked
    /\ SolverIdle
    /\ CalIdle
    /\ SessIdle
    /\ SrcIdle
    /\ ProcIdle
    /\ OrdIdle
    /\ DetIdle
    /\ SaveIdle
    /\ ProfIdle
    /\ RaceIdle
    /\ crop_in \in {[rect |-> r, img_h |-> ih, img_w |-> iw] :
                        r \in HullRects, ih \in 1..MaxDim, iw \in 1..MaxDim}
    /\ crop_rect = NoRect

CropNext == ComputeCrop

CropSpec == CropInit /\ [][CropNext]_vars

\* --------------------------------------- the views on calibration sessions
\* The lines a submit request carries: a JSON list of any length.
SubmittedLines ==
    SeqsUpTo(ServiceLines, MaxLines) \cup [1..MinTracedLines -> ServiceLines]

\* The id the next session row gets (0: the model has no further row).
NextId ==
    IF \E id \in 1..MaxSessions : sessions[id].status = "absent"
    THEN CHOOSE id \in 1..MaxSessions :
            /\ sessions[id].status = "absent"
            /\ \A j \in 1..(id - 1) : sessions[j].status # "absent"
    ELSE 0

\* submit_calibration: fewer than three lines are turned away; otherwise
\* create_calibration_session runs. It raises before the session row is
\* created, or after (the row stays Pending without artifacts), or it stages
\* the artifacts and records their directory. The view has checked that the
\* image file exists.
SubmitCalibration(lines, image) ==
    /\ NextId # 0
    /\ LET c == [entry |-> "service", image |-> image, given |-> TRUE, lines |-> lines,
                 outline |-> TRUE]
           start == ServiceStart(c)
       IN  IF Len(lines) < MinTracedLines
           THEN /\ request' = [op |-> "submit", id |-> 0, response |-> "too_few_lines"]
                /\ UNCHANGED sessions
           ELSE IF ~start.session
           THEN /\ request' = [op |-> "submit", id |-> 0, response |-> start.error]
                /\ UNCHANGED sessions
           ELSE /\ request' = [op |-> "submit", id |-> NextId, response |-> start.error]
                /\ sessions' = [sessions EXCEPT ![NextId] =
                                    [NewSession EXCEPT !.artifact_dir = (start.error = "none")]]
    /\ UNCHANGED <<capVars, solverVars, notSess, camera>>

\* Faulty variant: a session of any status is fetched.
FetchedAny(session) == session.status # "absent"

\* get_object_or_404(CalibrationSession, id=session_id, status=PENDING)
Fetched(session) == session.status = "pending"

\* accept_calibration: 404 unless the session is Pending; turned away when
\* the session has no artifact directory or a staged file is missing;
\* otherwise the artifacts are copied into the camera's calibration
\* directory, the camera is marked calibrated and the session Accepted.
AcceptCalibration(id, staged) ==
    /\ IF ~Fetched(sessions[id])
       THEN /\ request' = [op |-> "accept", id |-> id, response |-> "404"]
            /\ UNCHANGED <<sessions, camera>>
       ELSE IF ~sessions[id].artifact_dir
       THEN /\ request' = [op |-> "accept", id |-> id, response |-> "no_artifacts"]
            /\ UNCHANGED <<sessions, camera>>
       ELSE IF ~staged
       THEN /\ request' = [op |-> "accept", id |-> id, response |-> "missing_files"]
            /\ UNCHANGED <<sessions, camera>>
       ELSE /\ request' = [op |-> "accept", id |-> id, response |-> "accepted"]
            /\ camera' = [is_calibrated |-> TRUE, calibration_dir |-> TRUE, profile |-> id]
            /\ sessions' = [sessions EXCEPT ![id].status = "accepted"]
    /\ UNCHANGED <<capVars, solverVars, notSess>>

\* reject_calibration: 404 unless the session is Pending; the previews and
\* the staged artifacts are deleted, artifact_dir is cleared and the session
\* Rejected.
RejectCalibration(id) ==
    /\ IF ~Fetched(sessions[id])
       THEN /\ request' = [op |-> "reject", id |-> id, response |-> "404"]
            /\ UNCHANGED sessions
       ELSE /\ request' = [op |-> "reject", id |-> id, response |-> "rejected"]
            /\ sessions' = [sessions EXCEPT ![id] =
                                [status |-> "rejected", artifact_dir |-> FALSE]]
    /\ UNCHANGED <<capVars, solverVars, notSess, camera>>

SessionInit ==
    /\ CaptureParked
    /\ SolverIdle
    /\ CalIdle
    /\ CropIdle
    /\ SessIdle
    /\ SrcIdle
    /\ ProcIdle
    /\ OrdIdle
    /\ DetIdle
    /\ SaveIdle
    /\ ProfIdle
    /\ RaceIdle

SessionNext ==
    \/ \E lines \in SubmittedLines : \E image \in {"ok", "undecodable"} :
          SubmitCalibration(lines, image)
    \/ \E id \in 1..MaxSessions : \E staged \in BOOLEAN : AcceptCalibration(id, staged)
    \/ \E id \in 1..MaxSessions : RejectCalibration(id)

SessionSpec == SessionInit /\ [][SessionNext]_vars

\* ------------------------------------------ the frame source's methods
\* Faulty variant: release leaves the handle in place.
ReleasedKept(src) == src

\* CameraFrameSource.release: the handle is released and forgotten.
Released(src) == [src EXCEPT !.cap = "None"]

\* CameraFrameSource.open: nothing to do for a snapshot URL; RuntimeError
\* without a device index; else the device is opened, and released again
\* with a RuntimeError when isOpened() is false.
SourceOpen(opened) ==
    /\ Len(history) < MaxHistory
    /\ IF source.snapshot_url
       THEN /\ history' = Append(history, "open")
            /\ UNCHANGED source
       ELSE IF ~source.device_index
       THEN /\ history' = Append(history, "open_failed")
            /\ UNCHANGED source
       ELSE IF opened
       THEN /\ history' = Append(history, "open")
            /\ source' = [source EXCEPT !.cap = "opened"]
       ELSE /\ history' = Append(history, "open_failed")
            /\ source' = Released([source EXCEPT !.cap = "opened"])
    /\ UNCHANGED <<capVars, solverVars, notSrc>>

\* CameraFrameSource.read: a snapshot URL is fetched and decoded; a device
\* is read through _cap, with a RuntimeError when _cap is unset or the
\* grab fails.
SourceRead(grabbed) ==
    /\ Len(history) < MaxHistory
    /\ IF source.snapshot_url
       THEN history' = Append(history, IF grabbed THEN "frame" ELSE "read_failed")
       ELSE IF source.cap = "None"
       THEN history' = Append(history, "read_failed")
       ELSE history' = Append(history, IF grabbed THEN "frame" ELSE "read_failed")
    /\ UNCHANGED <<capVars, solverVars, notSrc, source>>

SourceRelease ==
    /\ Len(history) < MaxHistory
    /\ source' = Released(source)
    /\ history' = Append(history, "release")
    /\ UNCHANGED <<capVars, solverVars, notSrc>>

SourceInit ==
    /\ CaptureParked
    /\ SolverIdle
    /\ CalIdle
    /\ CropIdle
    /\ SessIdle
    /\ ProcIdle
    /\ OrdIdle
    /\ DetIdle
    /\ SaveIdle
    /\ ProfIdle
    /\ RaceIdle
    /\ source \in {NewSource(TRUE, FALSE), NewSource(TRUE, TRUE), NewSource(FALSE, TRUE),
                    NewSource(FALSE, FALSE)}
    /\ history = <<>>

SourceNext ==
    \/ \E opened \in BOOLEAN : SourceOpen(opened)
    \/ \E grabbed \in BOOLEAN : SourceRead(grabbed)
    \/ SourceRelease

SourceSpec == SourceInit /\ [][SourceNext]_vars

\* ------------------------------- starting and stopping motion capture
\* trigger_motion_capture: turned away while a pid is recorded; otherwise
\* the capture command is launched detached and its pid recorded. A failed
\* launch changes nothing.
TriggerMotionCapture(launch_ok) ==
    /\ launched < MaxLaunches
    /\ IF motion_capture_pid # 0
       THEN /\ notice' = "already_running"
            /\ UNCHANGED <<motion_capture_pid, running, launched>>
       ELSE IF launch_ok
       THEN /\ launched' = launched + 1
            /\ running' = running \cup {launched + 1}
            /\ motion_capture_pid' = launched + 1
            /\ notice' = "started"
       ELSE /\ notice' = "launch_failed"
            /\ UNCHANGED <<motion_capture_pid, running, launched>>
    /\ UNCHANGED <<capVars, solverVars, notProc>>

\* terminate_process: taskkill or SIGTERM. It returns True when the signal
\* was delivered, which ends the process; False when the process was not
\* found, and also when the kill was refused (PermissionError, OSError, a
\* taskkill exit code other than 0), which leaves the process alive.
TerminateOutcomes(pid) ==
    IF pid \in running
    THEN {[confirmed |-> TRUE, alive |-> FALSE], [confirmed |-> FALSE, alive |-> TRUE]}
    ELSE {[confirmed |-> FALSE, alive |-> FALSE]}

\* stop_motion_capture: nothing to do without a recorded pid; otherwise the
\* process is terminated, and the recorded pid is cleared whether or not the
\* termination was confirmed.
StopMotionCapture ==
    /\ IF motion_capture_pid = 0
       THEN /\ notice' = "none_recorded"
            /\ UNCHANGED <<motion_capture_pid, running>>
       ELSE \E outcome \in TerminateOutcomes(motion_capture_pid) :
            /\ running' = IF outcome.alive THEN running
                           ELSE running \ {motion_capture_pid}
            /\ motion_capture_pid' = 0
            /\ notice' = IF outcome.confirmed THEN "stopped" ELSE "unconfirmed"
    /\ UNCHANGED <<capVars, solverVars, notProc, launched>>

\* A capture process ends on its own: the frame limit, a failed open, an
\* error in the loop. The pid recorded for the camera stays.
LoopExits(pid) ==
    /\ pid \in running
    /\ running' = running \ {pid}
    /\ UNCHANGED <<capVars, solverVars, notProc, motion_capture_pid, launched, notice>>

ProcessInit ==
    /\ CaptureParked
    /\ SolverIdle
    /\ CalIdle
    /\ CropIdle
    /\ SessIdle
    /\ SrcIdle
    /\ ProcIdle
    /\ OrdIdle
    /\ DetIdle
    /\ SaveIdle
    /\ ProfIdle
    /\ RaceIdle

ProcessNext ==
    \/ \E launch_ok \in BOOLEAN : TriggerMotionCapture(launch_ok)
    \/ StopMotionCapture
    \/ \E pid \in 1..MaxLaunches : LoopExits(pid)

ProcessSpec == ProcessInit /\ [][ProcessNext]_vars

\* ------------------------------------------------ ordering the corners
\* np.argmin and np.argmax: the first index of the smallest, the largest value.
ArgMin(v) ==
    CHOOSE i \in 1..Len(v) :
        /\ \A j \in 1..Len(v) : v[i] <= v[j]
        /\ \A j \in 1..(i - 1) : v[j] > v[i]

ArgMax(v) ==
    CHOOSE i \in 1..Len(v) :
        /\ \A j \in 1..Len(v) : v[i] >= v[j]
        /\ \A j \in 1..(i - 1) : v[j] < v[i]

\* Faulty variant: the roles of the sums and the differences are exchanged.
OrderPointsSwapped(pts) ==
    LET s == [i \in 1..Len(pts) |-> pts[i][1] + pts[i][2]]
        diff == [i \in 1..Len(pts) |-> pts[i][2] - pts[i][1]]
    IN  <<pts[ArgMin(diff)], pts[ArgMin(s)], pts[ArgMax(diff)], pts[ArgMax(s)]>>

\* Faulty variant: the difference is taken as x - y instead of np.diff's y - x.
OrderPointsXMinusY(pts) ==
    LET s == [i \in 1..Len(pts) |-> pts[i][1] + pts[i][2]]
        diff == [i \in 1..Len(pts) |-> pts[i][1] - pts[i][2]]
    IN  <<pts[ArgMin(s)], pts[ArgMin(diff)], pts[ArgMax(s)], pts[ArgMax(diff)]>>

\* _order_points: top-left has the smallest x + y, bottom-right the largest,
\* top-right the smallest y - x, bottom-left the largest.
OrderPoints(pts) ==
    LET s == [i \in 1..Len(pts) |-> pts[i][1] + pts[i][2]]
        diff == [i \in 1..Len(pts) |-> pts[i][2] - pts[i][1]]
    IN  <<pts[ArgMin(s)], pts[ArgMin(diff)], pts[ArgMax(s)], pts[ArgMax(diff)]>>

\* The four points of a contour approximation or of a box: any four pixels.
CornerCandidates == (0..MaxCoord) \X (0..MaxCoord)

Order ==
    /\ points # <<>>
    /\ ordered = <<>>
    /\ ordered' = OrderPoints(points)
    /\ UNCHANGED <<capVars, solverVars, notOrd, points>>

OrderInit ==
    /\ CaptureParked
    /\ SolverIdle
    /\ CalIdle
    /\ CropIdle
    /\ SessIdle
    /\ SrcIdle
    /\ ProcIdle
    /\ DetIdle
    /\ SaveIdle
    /\ ProfIdle
    /\ RaceIdle
    /\ points \in [1..4 -> CornerCandidates]
    /\ ordered = <<>>

OrderNext == Order

OrderSpec == OrderInit /\ [][OrderNext]_vars

\* ------------------------------------------------ finding the outline
\* A contour as the detector sees it: cv2.contourArea of it and the number of
\* vertices cv2.approxPolyDP leaves. A contour is named by its index in the
\* list cv2.findContours returned.
Contours == [area : 1..MaxArea, vertices : 3..MaxVertices]

\* sorted(contours, key=cv2.contourArea, reverse=True): the indices by falling
\* area; the sort is stable, contours of equal area keep their order.
SortedByArea(cs) ==
    CHOOSE order \in [1..Len(cs) -> 1..Len(cs)] :
        /\ \A i, j \in 1..Len(cs) : i # j => order[i] # order[j]
        /\ \A i, j \in 1..Len(cs) :
              i < j => \/ cs[order[i]].area > cs[order[j]].area
                       \/ (cs[order[i]].area = cs[order[j]].area /\ order[i] < order[j])

\* _detect_sheet_corners from the contours on: the approximation of the first
\* contour, by falling area, that has four vertices; if none has, the
\* cv2.minAreaRect box of the largest contour; an error without contours.
DetectSheetCorners(cs) ==
    IF cs = <<>>
    THEN [outcome |-> "error", contour |-> 0]
    ELSE LET order == SortedByArea(cs)
             four == {i \in 1..Len(cs) : cs[order[i]].vertices = 4}
         IN  IF four # {}
             THEN [outcome |-> "approx",
                   contour |-> order[CHOOSE i \in four : \A j \in four : i <= j]]
             ELSE [outcome |-> "box", contour |-> order[1]]

Detect ==
    /\ detected = NoDetection
    /\ detected' = DetectSheetCorners(contours)
    /\ UNCHANGED <<capVars, solverVars, notDet, contours>>

DetectInit ==
    /\ CaptureParked
    /\ SolverIdle
    /\ CalIdle
    /\ CropIdle
    /\ SessIdle
    /\ SrcIdle
    /\ ProcIdle
    /\ OrdIdle
    /\ SaveIdle
    /\ ProfIdle
    /\ RaceIdle
    /\ contours \in SeqsUpTo(Contours, MaxContours)
    /\ detected = NoDetection

DetectNext == Detect

DetectSpec == DetectInit /\ [][DetectNext]_vars

\* ------------------------------------------- the builders of crop_rect.npy
\* The crop builder raised, or wrote the rectangle.
Raised == [state |-> "raised", rect |-> NoRect]
Saved(rect) == [state |-> "saved", rect |-> rect]

\* run_calibration_pipeline line 146 with _write_session_artifacts line 100:
\* the rectangle of _compute_crop_rect is saved as it is.
PipelineCrop(in) == Saved(ComputeCropRect(in.rect, in.img_h, in.img_w))

\* compute_crop.py lines 40-48: the bounding rectangle of the hull is used as
\* it is; cv2.imwrite raises on an empty slice, before the rectangle is saved.
ComputeCropScript(in) ==
    IF \/ PySliceLen(in.img_h, in.rect.y, in.rect.y + in.rect.h) = 0
       \/ PySliceLen(in.img_w, in.rect.x, in.rect.x + in.rect.w) = 0
    THEN Raised
    ELSE Saved(in.rect)

\* one_time_crop.py lines 57-80. The input rectangle holds the limits taken
\* from line_info: x the largest left end, x + w the smallest right end, y the
\* smallest y_mean and y + h the largest.
OneTimeCrop(in) ==
    LET x_left == Max(0, Min(in.img_w - 1, in.rect.x + MARGIN))
        x_right == Max(0, Min(in.img_w - 1, in.rect.x + in.rect.w - MARGIN))
        y_top == Max(0, Min(in.img_h - 1, in.rect.y + MARGIN))
        y_bot == Max(0, Min(in.img_h - 1, in.rect.y + in.rect.h - MARGIN))
    IN  IF x_right <= x_left \/ y_bot <= y_top
        THEN Raised
        ELSE Saved([x |-> x_left, y |-> y_top, w |-> x_right - x_left, h |-> y_bot - y_top])

\* The limits one_time_crop.py may find: lines that end left of, on and right
\* of the image, by more or less than the margin.
LineLimits ==
    {[x |-> x, y |-> y, w |-> w, h |-> h] :
        x \in {0 - MARGIN - 1, 0 - MARGIN, 0}, y \in {0 - MARGIN - 1, 0 - MARGIN, 0},
        w \in {0, MaxDim + MARGIN + 1, MaxDim + 2 * MARGIN + 1},
        h \in {0, MaxDim + MARGIN + 1, MaxDim + 2 * MARGIN + 1}}

BuilderInputs(b) ==
    {[rect |-> r, img_h |-> ih, img_w |-> iw] :
        r \in (IF b = "one_time_crop" THEN LineLimits ELSE HullRects),
        ih \in 1..MaxDim, iw \in 1..MaxDim}

BuildCrop ==
    /\ artifact = NotSaved
    /\ builder # "none"
    /\ artifact' = CASE builder = "pipeline" -> PipelineCrop(builder_in)
                  [] builder = "compute_crop" -> ComputeCropScript(builder_in)
                  [] OTHER -> OneTimeCrop(builder_in)
    /\ UNCHANGED <<capVars, solverVars, notSave, builder, builder_in>>

SaveInit ==
    /\ CaptureParked
    /\ SolverIdle
    /\ CalIdle
    /\ CropIdle
    /\ SessIdle
    /\ SrcIdle
    /\ ProcIdle
    /\ OrdIdle
    /\ DetIdle
    /\ ProfIdle
    /\ RaceIdle
    /\ builder \in {"pipeline", "compute_crop", "one_time_crop"}
    /\ builder_in \in BuilderInputs(builder)
    /\ artifact = NotSaved

SaveNext == BuildCrop

SaveSpec == SaveInit /\ [][SaveNext]_vars

\* ------------------------------- accepting a profile while one is loaded
\* accept_calibration up to the first copy: the session is Pending and its
\* staged files exist. Runs are accepted one after the other.
BeginAccept ==
    /\ accepting = NoAccept
    /\ \E run \in 2..MaxRuns :
          /\ \A f \in DOMAIN profile_dir : profile_dir[f] < run
          /\ accepting' = [run |-> run, copied |-> 0]
    /\ UNCHANGED <<capVars, solverVars, notProf, profile_dir, calibrated, loading>>

\* One pass of the loop over required_files: shutil.copy2 of one file into
\* the camera's directory.
CopyFile ==
    /\ accepting # NoAccept
    /\ accepting.copied < Len(RequiredFiles)
    /\ profile_dir' = [profile_dir EXCEPT ![RequiredFiles[accepting.copied + 1]] = accepting.run]
    /\ accepting' = [accepting EXCEPT !.copied = @ + 1]
    /\ UNCHANGED <<capVars, solverVars, notProf, calibrated, loading>>

\* camera.save(update_fields=['calibration_dir', 'is_calibrated']) and the
\* rest of accept_calibration.
FinishAccept ==
    /\ accepting # NoAccept
    /\ accepting.copied = Len(RequiredFiles)
    /\ calibrated' = TRUE
    /\ accepting' = NoAccept
    /\ UNCHANGED <<capVars, solverVars, notProf, profile_dir, loading>>

\* The files a rectifier loads, in the order of the np.load calls:
\* FrameCropper first, then FrameRectifier.__init__.
LoadOrder == <<"crop_rect", "camera_matrix", "dist_coeffs", "new_camera_matrix", "homography">>

\* _build_rectifier up to the first np.load: None for a camera that is not
\* calibrated or lacks one of the four files the rectifier needs.
StartLoad ==
    /\ loading.pc = "start"
    /\ IF \/ ~calibrated
          \/ \E f \in {"camera_matrix", "dist_coeffs", "new_camera_matrix", "homography"} :
                profile_dir[f] = 0
       THEN loading' = [loading EXCEPT !.pc = "none"]
       ELSE loading' = [loading EXCEPT !.pc = "load",
                                       !.next = IF profile_dir["crop_rect"] = 0 THEN 2 ELSE 1]
    /\ UNCHANGED <<capVars, solverVars, notProf, profile_dir, calibrated, accepting>>

\* np.load of a file: what the directory holds at this moment.
Loaded(f) == profile_dir[f]

\* One np.load of FrameCropper.__init__ or FrameRectifier.__init__.
LoadFile ==
    /\ loading.pc = "load"
    /\ loading' = [pc |-> IF loading.next = Len(LoadOrder) THEN "built" ELSE "load",
                   next |-> loading.next + 1,
                   loaded |-> [loading.loaded EXCEPT ![LoadOrder[loading.next]] =
                                  Loaded(LoadOrder[loading.next])]]
    /\ UNCHANGED <<capVars, solverVars, notProf, profile_dir, calibrated, accepting>>

ProfileInit ==
    /\ CaptureParked
    /\ SolverIdle
    /\ CalIdle
    /\ CropIdle
    /\ SessIdle
    /\ SrcIdle
    /\ ProcIdle
    /\ OrdIdle
    /\ DetIdle
    /\ SaveIdle
    /\ RaceIdle
    /\ calibrated \in BOOLEAN
    /\ \E hom \in 0..1 :
          profile_dir = [ProfileOf(IF calibrated THEN 1 ELSE 0) EXCEPT !["homography"] = hom]
    /\ accepting = NoAccept
    /\ loading = [NoLoad EXCEPT !.pc = "start"]

ProfileNext ==
    \/ BeginAccept
    \/ CopyFile
    \/ FinishAccept
    \/ StartLoad
    \/ LoadFile

ProfileSpec == ProfileInit /\ [][ProfileNext]_vars

\* ------------------------- accept and reject as they run side by side
\* Here a view is a sequence of steps, one per access to the database or the
\* file system, and the steps of two requests interleave: the views take no
\* lock and are not wrapped in a transaction.
HandlerStep(h, next) ==
    /\ handlers' = [handlers EXCEPT ![h] = next]

\* get_object_or_404(CalibrationSession, id=session_id, status=PENDING)
FetchPending(h) ==
    /\ handlers[h].pc = "fetch"
    /\ HandlerStep(h, IF row.status = "pending"
                      THEN [handlers[h] EXCEPT !.pc = "fetched", !.fetched = row]
                      ELSE [handlers[h] EXCEPT !.pc = "not_found"])
    /\ UNCHANGED <<capVars, solverVars, notRace, row, staged_files, promoted, status_writes>>

\* accept_calibration lines 251-277: the checks on the staged files, then the
\* copies into the camera's directory.
AcceptCopy(h) ==
    /\ handlers[h].view = "accept"
    /\ handlers[h].pc = "fetched"
    /\ HandlerStep(h, IF handlers[h].fetched.artifact_dir /\ staged_files
                      THEN [handlers[h] EXCEPT !.pc = "copied"]
                      ELSE [handlers[h] EXCEPT !.pc = "refused"])
    /\ UNCHANGED <<capVars, solverVars, notRace, row, staged_files, promoted, status_writes>>

\* camera.save(update_fields=['calibration_dir', 'is_calibrated'])
AcceptPromote(h) ==
    /\ handlers[h].view = "accept"
    /\ handlers[h].pc = "copied"
    /\ promoted' = TRUE
    /\ HandlerStep(h, [handlers[h] EXCEPT !.pc = "promoted"])
    /\ UNCHANGED <<capVars, solverVars, notRace, row, staged_files, status_writes>>

\* session.status = ACCEPTED; session.save(update_fields=['status'])
AcceptSave(h) ==
    /\ handlers[h].view = "accept"
    /\ handlers[h].pc = "promoted"
    /\ row' = [row EXCEPT !.status = "accepted"]
    /\ status_writes' = status_writes + 1
    /\ HandlerStep(h, [handlers[h] EXCEPT !.pc = "done"])
    /\ UNCHANGED <<capVars, solverVars, notRace, staged_files, promoted>>

\* reject_calibration lines 314-321: the previews are deleted and
\* shutil.rmtree(artifact_dir, ignore_errors=True)
RejectDelete(h) ==
    /\ handlers[h].view = "reject"
    /\ handlers[h].pc = "fetched"
    /\ staged_files' = IF handlers[h].fetched.artifact_dir THEN FALSE ELSE staged_files
    /\ HandlerStep(h, [handlers[h] EXCEPT !.pc = "deleted"])
    /\ UNCHANGED <<capVars, solverVars, notRace, row, promoted, status_writes>>

\* session.artifact_dir = ''; session.status = REJECTED;
\* session.save(update_fields=['status', 'artifact_dir'])
RejectSave(h) ==
    /\ handlers[h].view = "reject"
    /\ handlers[h].pc = "deleted"
    /\ row' = [status |-> "rejected", artifact_dir |-> FALSE]
    /\ status_writes' = status_writes + 1
    /\ HandlerStep(h, [handlers[h] EXCEPT !.pc = "done"])
    /\ UNCHANGED <<capVars, solverVars, notRace, staged_files, promoted>>

RaceInit ==
    /\ CaptureParked
    /\ SolverIdle
    /\ CalIdle
    /\ CropIdle
    /\ SessIdle
    /\ SrcIdle
    /\ ProcIdle
    /\ OrdIdle
    /\ DetIdle
    /\ SaveIdle
    /\ ProfIdle
    /\ \E dir \in BOOLEAN :
          /\ row = [status |-> "pending", artifact_dir |-> dir]
          /\ staged_files = dir
    /\ promoted = FALSE
    /\ status_writes = 0
    /\ handlers \in [1..MaxRequests ->
                        {[view |-> v, pc |-> "fetch", fetched |-> NoSession] :
                            v \in {"accept", "reject"}}]

RaceNext ==
    \E h \in 1..MaxRequests :
        \/ FetchPending(h)
        \/ AcceptCopy(h)
        \/ AcceptPromote(h)
        \/ AcceptSave(h)
        \/ RejectDelete(h)
        \/ RejectSave(h)

RaceSpec == RaceInit /\ [][RaceNext]_vars

\* ------------------------------------------------------------ the claims
\* A loop iteration took place in this step.
Iterated == last' # last \/ accepts' # accepts

HasOp(f, op) == \E i \in 1..Len(f.ops) : f.ops[i] = op

\* The frames differ enough: the mean absolute difference of the two
\* comparison images is at least the threshold.
Changed(ref, f) ==
    LET g == Gray(DetectorInput(f))
    IN  IF ref = NoGray THEN TRUE ELSE SumSeq(AbsDiff(g, ref)) >= threshold * Len(g)

\* C1: a failed frame read is never fatal: the loop stays in the loop with the
\* source open, and the reference, the accepted-frame count and everything
\* handed to persistence are left as they were.
C1_ReadFailureNotFatal ==
    [][(Iterated /\ last'.ev = "read_failed") =>
          /\ pc' = "loop" /\ cap' = "open" /\ exit' = "none"
          /\ prev_gray' = prev_gray
          /\ saved_frames' = saved_frames
          /\ accepts' = accepts
          /\ calls' = calls /\ stored' = stored /\ handed' = handed]_vars

C1_Witness ==
    /\ pc = "loop"
    /\ last.ev = "read_failed"
    /\ last.fails = MaxReadFails
    /\ prev_gray # NoGray
    /\ saved_frames > 0

\* C2: once the source has been opened, it is released on every exit path.
C2_ReleasedOnEveryExit ==
    (pc = "exited" /\ exit # "open_failed") => cap = "released"

\* C3: a failure of the persistence step does not end the loop.
C3_PersistFailureNotFatal ==
    [][(Iterated /\ last'.ev = "persist_failed") => pc' = "loop"]_vars

\* C4: a crop rectangle that does not fit the corrected frame fails that frame
\* only: the loop goes on, nothing is persisted, the reference and the count
\* stay as they were.
C4_CropFailureSkipsFrame ==
    [][(Iterated /\ last'.ev = "rectify_failed") =>
          /\ pc' = "loop"
          /\ calls' = calls
          /\ prev_gray' = prev_gray
          /\ saved_frames' = saved_frames]_vars

\* C5: the detector accepts a frame exactly when there is no stored reference
\* or the mean absolute difference to the reference is at least the threshold;
\* otherwise it skips.
C5_AcceptIffChanged ==
    [][(Iterated /\ last'.ev \in {"skipped", "accepted", "persist_failed", "quit"}) =>
          ((last'.ev # "skipped") <=> Changed(prev_gray, last'.raw))]_vars

C5_Witness ==
    /\ pc = "loop"
    /\ last.ev = "accepted"
    /\ accepts >= 2
    /\ threshold > 0

\* C6 as stated: after a frame was accepted, the identical frame is skipped,
\* whatever the threshold.
C6_IdenticalFrameSkipped ==
    [][(Iterated /\ pc = "loop" /\ lastAccepted # NoFrame /\ last'.raw = lastAccepted) =>
          last'.ev = "skipped"]_vars

\* C6 amended: after a frame was accepted, the identical frame is skipped,
\* for every positive threshold.
C6_IdenticalFrameSkippedPositive ==
    [][(Iterated /\ pc = "loop" /\ lastAccepted # NoFrame /\ last'.raw = lastAccepted
            /\ threshold > 0) =>
          (last'.ev = "skipped" /\ calls' = calls /\ accepts' = accepts)]_vars

C6_Witness ==
    /\ pc = "loop"
    /\ threshold > 0
    /\ last.ev = "skipped"
    /\ last.raw = lastAccepted

\* C7: while the loop runs, the stored reference is the comparison image of
\* the most recently accepted frame, and none before the first accept.
C7_ReferenceIsLastAccepted ==
    pc = "loop" =>
        prev_gray = (IF lastAccepted = NoFrame THEN NoGray
                     ELSE Gray(DetectorInput(lastAccepted)))

\* A frame was seen and skipped whose comparison image differs from the reference.
C7_Witness ==
    /\ pc = "loop"
    /\ last.ev = "skipped"
    /\ accepts >= 1
    /\ Gray(DetectorInput(last.raw)) # prev_gray

C9_StopsAtLimit ==
    /\ (exit = "limit" => (max_frames > 0 /\ stored = max_frames))
    /\ (max_frames > 0 => stored <= max_frames)
    /\ ((max_frames > 0 /\ stored = max_frames) => pc = "exited")
    /\ (max_frames = 0 => exit # "limit")


\* The grid positions, and their enumeration order.
GridPositions ==
    (1..Len(f_factors)) \X (1..Len(k1_values)) \X (1..Len(k2_values))

Before(p, q) ==
    \/ p[1] < q[1]
    \/ p[1] = q[1] /\ p[2] < q[2]
    \/ p[1] = q[1] /\ p[2] = q[2] /\ p[3] < q[3]

ResidualAt(p) ==
    Residual(solver_in, f_factors[p[1]], k1_values[p[2]], k2_values[p[3]])

\* p has the minimal residual and no position enumerated before it has it too.
FirstMinimal(p) ==
    \A q \in GridPositions :
        /\ ResidualAt(q) >= ResidualAt(p)
        /\ (ResidualAt(q) = ResidualAt(p) => ~Before(q, p))

\* C10: the solver's choice is a function of its input: the combination with
\* the minimal total residual that comes first in the enumeration order
\* (f_factor outermost, then k1, k2 innermost).
C10_FirstMinimalSelected ==
    spc = "done" =>
        \E p \in GridPositions : FirstMinimal(p) /\ best_combo = ComboAt(p)

\* A finished search in which several combinations share the minimal residual
\* and the one selected is not the first of the grid.
C10_Witness ==
    /\ spc = "done"
    /\ best_combo # ComboAt(FirstPos)
    /\ \E p \in GridPositions :
          /\ ComboAt(p) # best_combo
          /\ ResidualAt(p) = best_err

\* C11: the search evaluates all 120 combinations of the grid (5 focal
\* factors x 6 k1 x 4 k2), and the fit error, the selected combination, the
\* camera matrix and the distortion coefficients it reports all come from
\* one and the same combination, whose total residual is not larger than that
\* of any other combination of the grid.
C11_AllEvaluatedOneCombination ==
    spc = "done" =>
        /\ Cardinality(GridPositions) = 120
        /\ evaluated = 120
        /\ \E p \in GridPositions :
              LET c == ComboAt(p)
                  r == EvaluateParams(solver_in, c[1], c[2], c[3])
              IN  /\ best_combo = c
                  /\ best_err = r.err
                  /\ best_K = r.K
                  /\ best_dist = r.dist
                  /\ \A q \in GridPositions : best_err <= ResidualAt(q)

\* A finished search whose best combination lies inside the grid, with a
\* residual that is not zero.
C11_Witness ==
    /\ spc = "done"
    /\ evaluated = 120
    /\ best_err > 0
    /\ best_combo[1] \notin {f_factors[1], f_factors[Len(f_factors)]}
    /\ best_combo[2] \notin {k1_values[1], k1_values[Len(k1_values)]}

\* The caller passed a list of lines none of which has a usable point.
NoUsableLine(c) ==
    /\ c.given
    /\ \A i \in 1..Len(c.lines) : \A j \in 1..Len(c.lines[i]) : Len(c.lines[i][j]) < 2

C13_CropInsideImage ==
    crop_rect # NoRect =>
        /\ crop_rect.x >= 0
        /\ crop_rect.y >= 0
        /\ crop_rect.w >= 1
        /\ crop_rect.h >= 1
        /\ crop_rect.x + crop_rect.w <= crop_in.img_w
        /\ crop_rect.y + crop_rect.h <= crop_in.img_h

\* A rectangle that starts right of and below the image and is larger than
\* it was clamped into a 1 x 1 image.
C13_Witness ==
    /\ crop_rect # NoRect
    /\ crop_in.img_w = 1
    /\ crop_in.img_h = 1
    /\ crop_in.rect.x > crop_in.img_w
    /\ crop_in.rect.y > crop_in.img_h
    /\ crop_in.rect.w > 1
    /\ crop_rect # crop_in.rect

\* C14: the rectifier is chosen by the profile fields that are populated: a
\* profile with intrinsics and a crop rectangle but no homography yields a
\* distortion-corrected, cropped frame, a profile with only a homography a
\* warp-only frame, and rectification is left out only when no field is
\* populated. Stated for the frames the capture command hands to persistence
\* for a calibrated camera.
C14_DispatchOnFields ==
    (variant = "command" /\ cfg.rectify /\ calls > 0) =>
        /\ (cfg.intrinsics /\ cfg.cropFile /\ ~cfg.homography) =>
              /\ handed[2] # NoFrame
              /\ HasOp(handed[2], "undistort")
              /\ HasOp(handed[2], "crop")
              /\ ~HasOp(handed[2], "warp")
        /\ (cfg.homography /\ ~cfg.intrinsics /\ ~cfg.cropFile) =>
              handed[2].ops = <<"warp">>
        /\ (handed[2] = NoFrame =>
              ~(cfg.intrinsics \/ cfg.homography \/ cfg.cropFile))

\* C15: a frame rectified under a crop rectangle that does not fit inside the
\* distortion-corrected frame fails with CropOutOfBounds: no frame is handed
\* on whose crop rectangle did not fit.
C15_CropOutOfBoundsRaises ==
    (calls > 0 /\ pipe.crop) => ~CropOutOfBounds(Undistort(lastAccepted), pipe.rect)

InLifecycle(i) ==
    \E j \in 1..(i - 1) :
        /\ history[j] = "open"
        /\ \A k \in (j + 1)..(i - 1) : history[k] # "release"

\* C17 as stated: for the device and for the HTTP-snapshot source alike, read
\* returns a frame only after a successful open and before the release.
C17_ReadOnlyWhileOpen ==
    \A i \in 1..Len(history) : history[i] = "frame" => InLifecycle(i)

\* C17 amended: the device source returns a frame only after a successful
\* open and before the release.
C17_DeviceReadOnlyWhileOpen ==
    ~source.snapshot_url =>
        \A i \in 1..Len(history) : history[i] = "frame" => InLifecycle(i)

\* A device source was opened, read, released and read again.
C17_Witness ==
    /\ ~source.snapshot_url
    /\ history = <<"open", "frame", "release", "read_failed">>

\* C18: at most one capture process runs for a camera at any time, whatever
\* the sequence of start and stop requests, also after a stop whose
\* termination could not be confirmed and after a loop that ended on its own.
C18_AtMostOneLoop ==
    Cardinality(running) <= 1

\* C19: the reference geometry the projector produces is never the input of
\* the solver: every set of lines the search works on was passed in by the
\* caller of the calibration run.
C19_SolverLinesFromCaller ==
    spc # "idle" => (call.given /\ origin = "caller")

\* x + y of a point.
CoordSum(pt) == pt[1] + pt[2]

\* C20: for any four points, the top-left corner returned has an x + y not
\* larger than that of any returned corner, and the bottom-right corner an
\* x + y not smaller than that of any returned corner.
C20_CornersOrderedBySum ==
    ordered # <<>> =>
        \A i \in 1..4 :
            /\ CoordSum(ordered[1]) <= CoordSum(ordered[i])
            /\ CoordSum(ordered[3]) >= CoordSum(ordered[i])

\* Four different points were ordered, two of which share the smallest
\* x + y, and the four corners returned are different points.
C20_Witness ==
    /\ ordered # <<>>
    /\ Cardinality({points[i] : i \in 1..4}) = 4
    /\ Cardinality({ordered[i] : i \in 1..4}) = 4
    /\ \E i \in 1..4 :
          /\ points[i] # ordered[1]
          /\ CoordSum(points[i]) = CoordSum(ordered[1])

\* x - y and y - x of a point.
XMinusY(pt) == pt[1] - pt[2]

YMinusX(pt) == pt[2] - pt[1]

\* C21: for any four points, the top-right corner returned has an x - y not
\* larger than that of any returned corner, and the bottom-left corner an
\* x - y not smaller than that of any returned corner.
C21_CornersOrderedByXMinusY ==
    ordered # <<>> =>
        \A i \in 1..4 :
            /\ XMinusY(ordered[2]) <= XMinusY(ordered[i])
            /\ XMinusY(ordered[4]) >= XMinusY(ordered[i])

\* C21, as the code has it: the top-right corner returned has the smallest
\* y - x (the largest x - y) of the input points, and the bottom-left corner
\* the largest y - x (the smallest x - y).
C21_CornersOrderedByYMinusX ==
    ordered # <<>> =>
        \A i \in 1..4 :
            /\ YMinusX(ordered[2]) <= YMinusX(points[i])
            /\ YMinusX(ordered[4]) >= YMinusX(points[i])

\* The corners of an upright rectangle were ordered: the top-right corner
\* returned is right of and not below the bottom-left one.
C21_Witness ==
    /\ ordered # <<>>
    /\ Cardinality({points[i] : i \in 1..4}) = 4
    /\ Cardinality({ordered[i] : i \in 1..4}) = 4
    /\ ordered[2][1] > ordered[4][1]
    /\ ordered[2][2] < ordered[4][2]
    /\ YMinusX(ordered[2]) < YMinusX(ordered[4])

\* What the loop's rectifier makes of a raw frame (the raw frame itself when no
\* rectifier was built).
RectifierOutput(raw) ==
    CASE variant = "command" -> IF pipe.rectify THEN Rectified(raw) ELSE raw
      [] OTHER -> DetectorInput(raw)

\* C22: a frame that was acquired is rectified before the change detector
\* evaluates it: after an accepted frame, the detector's reference is the
\* comparison image of the rectified frame, not of the raw one.
C22_RectifiedBeforeEvaluation ==
    last.ev = "accepted" => prev_gray = Gray(RectifierOutput(last.raw))

\* C23: the rectifier corrects the distortion, then crops, then warps: in a
\* frame handed to persistence, no crop was applied after a warp and none
\* before the distortion correction.
C23_UndistortCropWarp ==
    \A k \in 1..Len(handed) :
        handed[k] # NoFrame =>
            \A i, j \in 1..Len(handed[k].ops) :
                /\ (handed[k].ops[i] = "warp" /\ handed[k].ops[j] = "crop") => j < i
                /\ (handed[k].ops[i] = "undistort" /\ handed[k].ops[j] = "crop") => i < j

\* C24: the corners come from the largest-area contour only: its polygon
\* approximation when that has exactly four vertices, else its minimum-area
\* bounding rectangle; a smaller contour is never their source.
C24_LargestContourOnly ==
    detected.outcome \in {"approx", "box"} =>
        /\ \A i \in 1..Len(contours) :
              contours[detected.contour].area >= contours[i].area
        /\ (detected.outcome = "approx" <=> contours[detected.contour].vertices = 4)

\* C25: every crop rectangle a crop-from-lines builder saves lies inside the
\* corrected image and is at least 1 x 1, so it fits a frame of the
\* calibration image's size.
C25_SavedRectFitsImage ==
    artifact.state = "saved" =>
        /\ artifact.rect.x >= 0
        /\ artifact.rect.y >= 0
        /\ artifact.rect.w >= 1
        /\ artifact.rect.h >= 1
        /\ artifact.rect.x + artifact.rect.w <= builder_in.img_w
        /\ artifact.rect.y + artifact.rect.h <= builder_in.img_h

\* C26: a rectifier built while a calibration is being accepted holds a
\* profile of one calibration run: the intrinsics, the distortion
\* coefficients, the optimal intrinsics and the crop rectangle it loaded all
\* come from the same run.
C26_ProfileFromOneRun ==
    loading.pc = "built" =>
        \A i, j \in 1..Len(RequiredFiles) :
            loading.loaded[RequiredFiles[i]] = loading.loaded[RequiredFiles[j]]

\* C27: of the requests that accept or reject one Pending session at the same
\* time exactly one takes effect: the session's status is written at most
\* once, and the session never ends Rejected, its staged artifacts deleted,
\* while the camera has been promoted to its calibration.
C27_OneRequestTakesEffect ==
    (\E h \in DOMAIN handlers : handlers[h].view = "accept") =>
        /\ status_writes <= 1
        /\ ~(row.status = "rejected" /\ ~staged_files /\ promoted)

\* C28: a calibration run that fails leaves no calibration session record
\* behind (and so no Pending session without staged artifacts).
C28_FailedRunLeavesNoSession ==
    cpc = "failed" => ~session_created

\* C29: for four different input points, the four corners returned are a
\* permutation of the inputs: every input point is returned exactly once.
C29_CornersArePermutation ==
    (ordered # <<>> /\ Cardinality({points[i] : i \in 1..4}) = 4) =>
        {ordered[i] : i \in 1..4} = {points[i] : i \in 1..4}

\* The bounding rectangle and the image have a pixel in common.
Overlaps(in) ==
    /\ in.rect.x < in.img_w
    /\ in.rect.y < in.img_h
    /\ in.rect.x + in.rect.w > 0
    /\ in.rect.y + in.rect.h > 0

\* The part of the bounding rectangle that lies inside the image.
Intersection(in) ==
    [x |-> Max(0, in.rect.x),
     y |-> Max(0, in.rect.y),
     w |-> Min(in.rect.x + in.rect.w, in.img_w) - Max(0, in.rect.x),
     h |-> Min(in.rect.y + in.rect.h, in.img_h) - Max(0, in.rect.y)]

\* C30: when the hull's bounding rectangle overlaps the corrected image, the
\* crop rectangle returned is the intersection of that rectangle with the
\* image: no edge is moved outward, no pixel outside the bounding rectangle
\* is included.
C30_CropIsIntersection ==
    (crop_rect # NoRect /\ Overlaps(crop_in)) => crop_rect = Intersection(crop_in)

====
